---- MODULE Spec2Model ----
(***************************************************************************)
(* Model of src/server/backend/anythingbackend.cpp: the plugin registry    *)
(* (interfaceList), the per-plugin QThread event loops, the server's three *)
(* file signals and the loader notification handlers wired by monitorStart.*)
(*                                                                         *)
(* Threads of the model:                                                   *)
(*   - the lifecycle thread, which runs init_connection, monitorStart and  *)
(*     the three loader handlers (pc, op, keys, i);                        *)
(*   - in RaceSpec, a second caller that runs addPlugin for a pluginAdded  *)
(*     notification while the lifecycle thread is inside removePlugins     *)
(*     (pcA, aKey, aH, aList);                                             *)
(*   - the server thread, which emits fileCreated / fileDeleted /          *)
(*     fileRenamed (Emit);                                                 *)
(*   - one QThread per plugin handle, running QThread::exec (the Exec      *)
(*     actions).                                                           *)
(* Library behaviour the code relies on (Qt 5):                            *)
(*   - a connection whose receiver lives in another thread is queued: the  *)
(*     emit posts an event to the receiver's thread and returns;           *)
(*   - the event loop dispatches the posted events in FIFO order, in       *)
(*     batches (sendPostedEvents handles the events that were posted when  *)
(*     it started), and looks at the exit flag only between batches;       *)
(*   - QThread::quit sets the exit flag; QThread::wait blocks until run()  *)
(*     has returned and answers false when it gave up.                     *)
(***************************************************************************)
EXTENDS Integers, Sequences, FiniteSets, TLC

\* ---------------------------------------------------------------- bounds
MaxHandles == 2   \* handles DASFactory::create may construct in a run
MaxEvents == 2    \* signals the server emits in a run
MaxNotes == 1     \* loader notifications delivered in a run
MaxTable == 2     \* bytes of /proc/self/mountinfo

Keys == {"p1", "p2"}
Handles == 1..MaxHandles
Signals == {"fileCreated", "fileDeleted", "fileRenamed"}
\* A posted slot call is named by the number of the emit that posted it; the
\* slot it calls (onFileCreate, onFileDelete, onFileRename) is the one
\* connected to the emitted signal.
NoEvent == 0
Events == 1..MaxEvents

VARIABLES
  interfaceList,  \* the static QList<QPair<QString, DASInterface*>>
  connected,      \* <<signal, handle>>: connections server -> handle
  released,       \* handles on which deleteLater() was called
  thr,            \* per handle: state of its QThread
  exitReq,        \* per handle: the exit flag set by QThread::quit
  queue,          \* per handle: posted, not yet dispatched slot calls
  batch,          \* per handle: calls left in the sendPostedEvents batch
  inflight,       \* per handle: the slot call being executed, or NoEvent
  done,           \* per handle: the slot calls executed, in order
  stuck,          \* handles whose running callback never returns
  nextH,          \* the next handle DASFactory::create constructs
  emitted,        \* number of signals emitted by the server
  notes,          \* number of loader notifications delivered
  serverRunning,  \* server->isRunning()
  crashed,        \* the process was killed by an invalid memory access
  pc, op, keys, i,\* lifecycle thread: position, handler, its keys, loop index
  atCall,         \* history: the number of signals emitted before the
                  \* removePlugins in progress was called
  atQuit,         \* history: per handle, the calls in dispatch when quit() ran
  waitFailed,     \* history: handles whose wait() failed in this handler
  kept,           \* history: handles torn down through a clobbered reference
  preList,        \* history: interfaceList when the current handler began
  lastOp,         \* history: outcome of the last finished handler
  addedOnce, addedTwice, removedKeys, \* history: keys added / removed
  hasconnected,   \* AnythingBackend::hasconnected
  lastRet,        \* what the last call of init_connection returned
  env,            \* what writeMountInfo finds: uname, the files
  mount,          \* what the last call of writeMountInfo did and returned
  starts,         \* history: number of calls of monitorStart
  subscribed,     \* the three loader notifications are connected
  unloaded,       \* removeLoader was called
  pcA, aKey, aH,  \* second caller of addPlugin: position, key, handle
  aList           \* second caller: the list its append read

vars == <<interfaceList, connected, released, thr, exitReq, queue, batch,
          inflight, done, stuck, nextH, emitted, notes, serverRunning,
          crashed, pc, op, keys, i, atCall, atQuit, waitFailed, kept, preList,
          lastOp, addedOnce, addedTwice, removedKeys, hasconnected, lastRet,
          env, mount, starts, subscribed, unloaded, pcA, aKey, aH, aList>>

execVars == <<thr, exitReq, queue, batch, inflight, done, stuck>>
lifeVars == <<pc, op, keys, i, notes>>
histVars == <<atCall, atQuit, waitFailed, kept, preList, lastOp,
              addedOnce, addedTwice, removedKeys>>
bootVars == <<hasconnected, lastRet, env, mount, starts>>
loaderVars == <<subscribed, unloaded>>
raceVars == <<pcA, aKey, aH, aList>>

\* ------------------------------------------------------------- helpers
Range(s) == {s[j] : j \in 1..Len(s)}
RemoveAt(s, j) == [x \in 1..(Len(s) - 1) |-> IF x < j THEN s[x] ELSE s[x + 1]]
KeysOf(l) == {l[j].key : j \in 1..Len(l)}
HandlesOf(l) == {l[j].h : j \in 1..Len(l)}
\* QStringList values without repetition (DASFactory::keys, getKeysByLoader)
KeyLists ==
  {s \in UNION {[1..n -> Keys] : n \in 0..Cardinality(Keys)} :
     \A a, b \in 1..Len(s) : a # b => s[a] # s[b]}

\* --------------------------------------------------------------- addPlugin
\* Mutant of addPlugin: the test `if (!interface)` is missing.
addPluginUnchecked(r, key, ok) ==
  [list |-> Append(r.list, [key |-> key, h |-> r.next]),
   conn |-> r.conn \cup {<<s, r.next>> : s \in Signals},
   thr  |-> [r.thr EXCEPT ![r.next] = "running"],
   next |-> r.next + 1]

\* Mutant of addPlugin: the thread is created and started before the test
\* `if (!interface)`.
addPluginThreadFirst(r, key, ok) ==
  IF ~ok THEN [r EXCEPT !.thr = [r.thr EXCEPT ![r.next] = "running"]]
  ELSE [list |-> Append(r.list, [key |-> key, h |-> r.next]),
        conn |-> r.conn \cup {<<s, r.next>> : s \in Signals},
        thr  |-> [r.thr EXCEPT ![r.next] = "running"],
        next |-> r.next + 1]

\* One call of addPlugin(key, server) on the registry state r; ok tells
\* whether DASFactory::create(key) returned an interface.
addPlugin(r, key, ok) ==
  IF ~ok THEN r
  ELSE [list |-> Append(r.list, [key |-> key, h |-> r.next]),
        conn |-> r.conn \cup {<<s, r.next>> : s \in Signals},
        thr  |-> [r.thr EXCEPT ![r.next] = "running"],
        next |-> r.next + 1]

\* for (const QString &key : ks) addPlugin(key, server);
RECURSIVE addPlugins(_, _, _)
addPlugins(r, ks, oks) ==
  IF ks = <<>> THEN r
  ELSE addPlugins(addPlugin(r, Head(ks), Head(ks) \in oks), Tail(ks), oks)

Registry == [list |-> interfaceList, conn |-> connected, thr |-> thr,
             next |-> nextH]

\* the registry variables after the calls, and the history of added keys
Added(r, ks, oks) ==
  /\ interfaceList' = r.list
  /\ connected' = r.conn
  /\ thr' = r.thr
  /\ nextH' = r.next
  /\ addedTwice' = addedTwice \cup (addedOnce \cap (Range(ks) \cap oks))
  /\ addedOnce' = addedOnce \cup (Range(ks) \cap oks)

\* the factory can still construct a handle for every key of oks
CanCreate(ks, oks) ==
  /\ oks \subseteq Range(ks)
  /\ nextH + Cardinality(oks) <= MaxHandles + 1

\* ----------------------------------------------------------- writeMountInfo
\* enum WriteMountInfoError
Success == 0
UnameFail == 1
UnrecognizedVersion == 2
OpenSrcFileFail == 3
OpenDstFileFail == 4
WriteDstFileFail == 5

\* uts.release as a sequence of characters.  The kernel releases tried: with
\* and without a third component, on both sides of 5.10, with a component
\* that is no number, with an empty component and with a suffix.
Releases ==
  { <<"5", ".", "9", ".", "0">>,
    <<"5", ".", "1", "0", ".", "3">>,
    <<"5", ".", "1", "1", ".", "0", "-", "a">>,
    <<"5", ".", "1", ".", "0">>,
    <<"6", ".", "1", ".", "0">>,
    <<"4", ".", "1", "9", ".", "0">>,
    <<"1", "0", ".", "0", ".", "1">>,
    <<"5", ".", "1", "0">>,
    <<"6">>,
    <<"a", "b", "c">>,
    <<>>,
    <<"5", ".", "x", ".", "1">>,
    <<"6", "x", ".", "1", ".", "1">>,
    <<"5", ".", ".", "3">>,
    <<".", "5", ".", "1", "0">> }

\* QString::split("."): the components between the dots, empty ones kept
RECURSIVE split(_)
split(s) ==
  IF s = <<>> THEN << <<>> >>
  ELSE LET r == split(Tail(s)) IN
       IF Head(s) = "." THEN << <<>> >> \o r
       ELSE << <<Head(s)>> \o Head(r) >> \o Tail(r)

DigitValue ==
  ("0" :> 0) @@ ("1" :> 1) @@ ("2" :> 2) @@ ("3" :> 3) @@ ("4" :> 4) @@
  ("5" :> 5) @@ ("6" :> 6) @@ ("7" :> 7) @@ ("8" :> 8) @@ ("9" :> 9)

RECURSIVE decimal(_, _)
decimal(acc, s) ==
  IF s = <<>> THEN acc ELSE decimal(acc * 10 + DigitValue[Head(s)], Tail(s))

\* QString::toInt(): the decimal value of a string of digits, and 0 when the
\* string is empty or holds anything else (the releases above carry no sign
\* and no number beyond the range of int).
toInt(s) ==
  IF s = <<>> \/ \E j \in 1..Len(s) : s[j] \notin DOMAIN DigitValue THEN 0
  ELSE decimal(0, s)

\* Mutant of VersionGate: the minor version is not looked at.
VersionGateMajorOnly(ver_x, ver_y) == ver_x >= 5

\* if (ver_x >= 6 || (5 == ver_x && ver_y >= 10))
VersionGate(ver_x, ver_y) == ver_x >= 6 \/ (5 = ver_x /\ ver_y >= 10)

\* Mutant of VersionKnown: two components are enough.
VersionKnownTwo(ver_list) == Len(ver_list) >= 2

\* the negation of `if (ver_list.size() < 3)`
VersionKnown(ver_list) == ~(Len(ver_list) < 3)

\* What the environments differ in: whether uname succeeds, uts.release,
\* whether /proc/self/mountinfo and /dev/driver_set_info can be opened, the
\* size of the mount table and the number of bytes write() takes.
Envs ==
  { e \in [unameOk : BOOLEAN, release : Releases, srcOk : BOOLEAN,
           dstOk : BOOLEAN, table : 0..MaxTable, accept : 0..MaxTable] :
      e.accept <= e.table }

\* What a call did: the files it opened, whether it read the table, the
\* calls of write() and the bytes they wrote, and the value returned.
Relay(r, opened, read, writes, written) ==
  [ret |-> r, opened |-> opened, read |-> read, writes |-> writes,
   written |-> written]

\* No call of writeMountInfo yet.
NotRun == Relay(Success, {}, FALSE, 0, 0)

\* int AnythingBackend::writeMountInfo() in the environment e
writeMountInfo(e) ==
  IF ~e.unameOk THEN Relay(UnameFail, {}, FALSE, 0, 0)
  ELSE LET ver_list == split(e.release) IN
  IF ~VersionKnown(ver_list) THEN Relay(UnrecognizedVersion, {}, FALSE, 0, 0)
  ELSE LET ver_x == toInt(ver_list[1])
           ver_y == toInt(ver_list[2]) IN
  IF ~VersionGate(ver_x, ver_y) THEN Relay(Success, {}, FALSE, 0, 0)
  ELSE IF ~e.srcOk THEN Relay(OpenSrcFileFail, {}, FALSE, 0, 0)
  ELSE IF ~e.dstOk THEN Relay(OpenDstFileFail, {"src"}, TRUE, 0, 0)
  ELSE IF e.accept # e.table
       THEN Relay(WriteDstFileFail, {"src", "dst"}, TRUE, 1, e.accept)
  ELSE Relay(Success, {"src", "dst"}, TRUE, 1, e.table)

\* --------------------------------------------------------------------- Init
\* No call of init_connection has returned yet.
NoRet == 1

\* The state after construction, in the environment e.
Constructed(e) ==
  /\ interfaceList = <<>>
  /\ connected = {}
  /\ released = {}
  /\ thr = [h \in Handles |-> "none"]
  /\ exitReq = [h \in Handles |-> FALSE]
  /\ queue = [h \in Handles |-> <<>>]
  /\ batch = [h \in Handles |-> 0]
  /\ inflight = [h \in Handles |-> NoEvent]
  /\ done = [h \in Handles |-> <<>>]
  /\ stuck = {}
  /\ nextH = 1
  /\ emitted = 0
  /\ notes = 0
  /\ serverRunning = FALSE
  /\ crashed = FALSE
  /\ pc = "boot" /\ op = "none" /\ keys = {} /\ i = 1
  /\ atCall = 0
  /\ atQuit = [h \in Handles |-> {}]
  /\ waitFailed = {}
  /\ kept = {}
  /\ preList = <<>>
  /\ lastOp = "none"
  /\ addedOnce = {} /\ addedTwice = {} /\ removedKeys = {}
  /\ hasconnected = FALSE
  /\ lastRet = NoRet
  /\ env = e
  /\ mount = NotRun
  /\ starts = 0
  /\ subscribed = FALSE
  /\ unloaded = FALSE
  /\ pcA = "idle" /\ aKey = "" /\ aH = 0 /\ aList = <<>>

\* A machine with kernel 5.10.3 where the relay works.
RelayEnv ==
  [unameOk |-> TRUE, release |-> <<"5", ".", "1", "0", ".", "3">>,
   srcOk |-> TRUE, dstOk |-> TRUE, table |-> MaxTable, accept |-> MaxTable]

Init == Constructed(RelayEnv)

\* Any machine.
BootInit == \E e \in Envs : Constructed(e)

\* ---------------------------------------------------------- init_connection
\* what backendRun() returns: 0, or 2 or 3 when a D-Bus registration failed
BackendRunResults == {0, 2, 3}

\* Mutant of Connected: the test `if (hasconnected)` is missing.
ConnectedNever(flag) == FALSE

\* if (hasconnected) return 0;
Connected(flag) == flag

\* fireAnything() -> init_connection(), up to the call of monitorStart: return
\* 0 at once when connected, -1 when backendRun() failed.
init_connection ==
  /\ pc \in {"boot", "idle"} /\ ~crashed
  /\ \E run \in BackendRunResults :
       IF Connected(hasconnected)
       THEN /\ lastRet' = 0
            /\ pc' = "end"
            /\ lastOp' = "connected"
       ELSE IF run = 0
       THEN /\ pc' = "mount"
            /\ UNCHANGED <<lastRet, lastOp>>
       ELSE /\ lastRet' = -1
            /\ UNCHANGED <<pc, lastOp>>
  /\ UNCHANGED <<interfaceList, connected, released, nextH, emitted, notes,
                 serverRunning, crashed, op, keys, i, hasconnected, env,
                 mount, starts, atCall, atQuit, waitFailed, kept, preList,
                 addedOnce, addedTwice, removedKeys>>
  /\ UNCHANGED execVars
  /\ UNCHANGED loaderVars
  /\ UNCHANGED raceVars

\* ------------------------------------------------------------ monitorStart
\* monitorStart, line 182: int mount_ret = writeMountInfo(); its value is
\* logged and nothing else.
monitorRelay ==
  /\ pc = "mount" /\ ~crashed
  /\ mount' = writeMountInfo(env)
  /\ starts' = starts + 1
  /\ pc' = "start"
  /\ UNCHANGED <<interfaceList, connected, released, nextH, emitted, notes,
                 serverRunning, crashed, op, keys, i, hasconnected, lastRet,
                 env>>
  /\ UNCHANGED execVars
  /\ UNCHANGED histVars
  /\ UNCHANGED loaderVars
  /\ UNCHANGED raceVars

\* Mutant of Proceeds: monitorStart gives up when the relay failed.
ProceedsOnSuccess(mount_ret) == mount_ret = Success

\* Whether monitorStart goes on after writeMountInfo returned mount_ret.
Proceeds(mount_ret) == TRUE

\* monitorStart from line 191 on: with the server not running yet, init
\* plugins from DASFactory::keys(), subscribe to the loader, start the
\* server.  Back in init_connection: hasconnected = true; return 0.
monitorStart ==
  /\ pc = "start" /\ ~crashed
  /\ IF Proceeds(mount.ret) /\ ~serverRunning
     THEN /\ \E ks \in KeyLists : \E oks \in SUBSET Keys :
               /\ CanCreate(ks, oks)
               /\ Added(addPlugins(Registry, ks, oks), ks, oks)
          /\ subscribed' = TRUE
          /\ serverRunning' = TRUE
     ELSE UNCHANGED <<interfaceList, connected, thr, nextH, addedOnce,
                      addedTwice, subscribed, serverRunning>>
  /\ hasconnected' = TRUE
  /\ lastRet' = 0
  /\ pc' = "end"
  /\ lastOp' = "started"
  /\ UNCHANGED <<released, exitReq, queue, batch, inflight, done, stuck,
                 emitted, notes, crashed, op, keys, i, atCall, atQuit, waitFailed,
                 kept, preList, removedKeys, env, mount, starts, unloaded>>
  /\ UNCHANGED raceVars

\* ------------------------------------------------- server thread: emit
\* The receivers a signal of the server is connected to (lines 78-80).
Receivers(sig) == {h \in Handles : <<sig, h>> \in connected}

\* An emit depends on the server thread alone: the connections are queued
\* (the receiver lives in its own QThread), so the emit posts and returns.
EmitReady == serverRunning /\ ~crashed

\* emit fileCreated / fileDeleted / fileRenamed: one posted call per receiver
Emit(sig) ==
  /\ EmitReady
  /\ emitted < MaxEvents
  /\ emitted' = emitted + 1
  /\ queue' = [h \in Handles |->
                 IF h \in Receivers(sig)
                 THEN Append(queue[h], emitted + 1)
                 ELSE queue[h]]
  /\ UNCHANGED <<interfaceList, connected, released, thr, exitReq, batch,
                 inflight, done, stuck, nextH, serverRunning, crashed>>
  /\ UNCHANGED lifeVars
  /\ UNCHANGED histVars
  /\ UNCHANGED bootVars
  /\ UNCHANGED loaderVars
  /\ UNCHANGED raceVars

\* ------------------------------------------- plugin threads: QThread::exec
\* Mutant of NextCall: the newest posted call is dispatched first.
NextCallNewest(q) == Len(q)

\* The posted call the event loop dispatches next: the oldest one.
NextCall(q) == 1

\* Mutant of CanRun: all handles are served by one thread, so a handle runs
\* only while no other handle is inside a callback.
CanRunShared(h) ==
  /\ thr[h] = "running" /\ ~crashed
  /\ \A g \in Handles \ {h} : inflight[g] = NoEvent

\* The thread of h is free to run its own event loop: each handle was moved
\* to a QThread of its own (lines 71-74).
CanRun(h) == thr[h] = "running" /\ ~crashed

\* Mutant of MayExit: the loop leaves exec() between two calls of a batch.
MayExitMidBatch(h) == exitReq[h] /\ inflight[h] = NoEvent

\* The loop leaves exec() when the exit flag is set and control is back in
\* the loop: no callback is running and the batch in dispatch is finished.
MayExit(h) == exitReq[h] /\ batch[h] = 0 /\ inflight[h] = NoEvent

\* The loop starts the next callback: inside a batch, or, with the exit flag
\* clear, as the first call of a new batch holding all posted calls.
ExecStart(h) ==
  /\ CanRun(h)
  /\ inflight[h] = NoEvent
  /\ queue[h] # <<>>
  /\ batch[h] > 0 \/ ~exitReq[h]
  /\ LET j == NextCall(queue[h]) IN
       /\ inflight' = [inflight EXCEPT ![h] = queue[h][j]]
       /\ queue' = [queue EXCEPT ![h] = RemoveAt(queue[h], j)]
  /\ batch' = [batch EXCEPT ![h] = IF batch[h] > 0 THEN batch[h] - 1
                                   ELSE Len(queue[h]) - 1]
  /\ \E blocks \in BOOLEAN :
       stuck' = IF blocks THEN stuck \cup {h} ELSE stuck
  /\ UNCHANGED <<interfaceList, connected, released, thr, exitReq, done,
                 nextH, emitted, serverRunning, crashed>>
  /\ UNCHANGED lifeVars
  /\ UNCHANGED histVars
  /\ UNCHANGED bootVars
  /\ UNCHANGED loaderVars
  /\ UNCHANGED raceVars

\* The running callback returns.
ExecFinish(h) ==
  /\ CanRun(h)
  /\ inflight[h] # NoEvent
  /\ h \notin stuck
  /\ done' = [done EXCEPT ![h] = Append(done[h], inflight[h])]
  /\ inflight' = [inflight EXCEPT ![h] = NoEvent]
  /\ UNCHANGED <<interfaceList, connected, released, thr, exitReq, queue,
                 batch, stuck, nextH, emitted, serverRunning, crashed>>
  /\ UNCHANGED lifeVars
  /\ UNCHANGED histVars
  /\ UNCHANGED bootVars
  /\ UNCHANGED loaderVars
  /\ UNCHANGED raceVars

\* exec() returns and the thread finishes; posted calls stay undelivered.
ExecExit(h) ==
  /\ CanRun(h)
  /\ MayExit(h)
  /\ thr' = [thr EXCEPT ![h] = "finished"]
  /\ UNCHANGED <<interfaceList, connected, released, exitReq, queue, batch,
                 inflight, done, stuck, nextH, emitted, serverRunning,
                 crashed>>
  /\ UNCHANGED lifeVars
  /\ UNCHANGED histVars
  /\ UNCHANGED bootVars
  /\ UNCHANGED loaderVars
  /\ UNCHANGED raceVars

\* ------------------------------------------------ loader notifications
\* pluginAdded(key): addPlugin(key, server)
pluginAdded(key) ==
  /\ pc = "idle" /\ ~crashed /\ subscribed
  /\ notes < MaxNotes
  /\ notes' = notes + 1
  /\ \E ok \in BOOLEAN :
       /\ CanCreate(<<key>>, IF ok THEN {key} ELSE {})
       /\ Added(addPlugin(Registry, key, ok), <<key>>,
                IF ok THEN {key} ELSE {})
       /\ lastOp' = IF ok THEN "added" ELSE "addFailed"
  /\ op' = "added"
  /\ keys' = {key}
  /\ preList' = interfaceList
  /\ pc' = "end"
  /\ UNCHANGED <<released, exitReq, queue, batch, inflight, done, stuck,
                 emitted, serverRunning, crashed, i, atCall, atQuit, waitFailed, kept,
                 removedKeys>>
  /\ UNCHANGED bootVars
  /\ UNCHANGED loaderVars
  /\ UNCHANGED raceVars

\* ---------------------------------------- addPlugin on a thread of its own
\* The handler of pluginAdded is connected with the context object `server`
\* (line 216) and runs in the thread `server` lives in; the handlers of
\* pluginRemoved and pluginModified are connected without one (lines 200 and
\* 205) and run in the thread that emits.  When the loader emits from another
\* thread, addPlugin runs while removePlugins is in its loop, and
\* interfaceList (line 47) is guarded by nothing.  addPlugin in its steps:

\* lines 64-74: create the interface, give it a thread and start it
addCreate(key) ==
  /\ pcA = "idle" /\ ~crashed /\ subscribed
  /\ aKey' = key
  /\ \E ok \in BOOLEAN :
       IF ok
       THEN /\ nextH <= MaxHandles
            /\ aH' = nextH
            /\ nextH' = nextH + 1
            /\ thr' = [thr EXCEPT ![nextH] = "running"]
            /\ pcA' = "append"
       ELSE /\ pcA' = "done"
            /\ UNCHANGED <<aH, nextH, thr>>
  /\ UNCHANGED <<interfaceList, connected, released, exitReq, queue, batch,
                 inflight, done, stuck, emitted, serverRunning, crashed,
                 aList>>
  /\ UNCHANGED lifeVars
  /\ UNCHANGED histVars
  /\ UNCHANGED bootVars
  /\ UNCHANGED loaderVars

\* line 76, interfaceList << QPair(key, interface), is no atomic step: the
\* append reads the list ...
addRead ==
  /\ pcA = "append" /\ ~crashed
  /\ aList' = interfaceList
  /\ pcA' = "write"
  /\ UNCHANGED <<interfaceList, connected, released, nextH, emitted,
                 serverRunning, crashed, aKey, aH>>
  /\ UNCHANGED execVars
  /\ UNCHANGED lifeVars
  /\ UNCHANGED histVars
  /\ UNCHANGED bootVars
  /\ UNCHANGED loaderVars

\* ... and stores the list it read with the new entry behind it.
addWrite ==
  /\ pcA = "write" /\ ~crashed
  /\ interfaceList' = Append(aList, [key |-> aKey, h |-> aH])
  /\ addedTwice' = addedTwice \cup (addedOnce \cap {aKey})
  /\ addedOnce' = addedOnce \cup {aKey}
  /\ pcA' = "connect"
  /\ UNCHANGED <<connected, released, nextH, emitted, serverRunning, crashed,
                 aKey, aH, aList, atCall, atQuit, waitFailed, kept, preList,
                 lastOp, removedKeys>>
  /\ UNCHANGED execVars
  /\ UNCHANGED lifeVars
  /\ UNCHANGED bootVars
  /\ UNCHANGED loaderVars

\* lines 78-80: the three connects
addConnect ==
  /\ pcA = "connect" /\ ~crashed
  /\ connected' = connected \cup {<<s, aH>> : s \in Signals}
  /\ pcA' = "done"
  /\ UNCHANGED <<interfaceList, released, nextH, emitted, serverRunning,
                 crashed, aKey, aH, aList>>
  /\ UNCHANGED execVars
  /\ UNCHANGED lifeVars
  /\ UNCHANGED histVars
  /\ UNCHANGED bootVars
  /\ UNCHANGED loaderVars

\* pluginRemoved(loader, ks) and pluginModified(loader, ks) both begin with
\* removePlugins(ks, server): enter its loop with i = 0 (here the 1-based
\* index 1).
pluginNotified(kind, ks) ==
  /\ pc = "idle" /\ ~crashed /\ subscribed
  /\ notes < MaxNotes
  /\ notes' = notes + 1
  /\ op' = kind
  /\ keys' = ks
  /\ i' = 1
  /\ pc' = "scan"
  /\ preList' = interfaceList
  /\ atCall' = emitted
  /\ lastOp' = "running"
  /\ UNCHANGED <<interfaceList, connected, released, nextH, emitted,
                 serverRunning, crashed, atQuit, waitFailed, kept, addedOnce,
                 addedTwice, removedKeys>>
  /\ UNCHANGED execVars
  /\ UNCHANGED bootVars
  /\ UNCHANGED loaderVars
  /\ UNCHANGED raceVars

pluginRemoved(ks) == pluginNotified("removed", ks)
pluginModified(ks) == pluginNotified("modified", ks)

\* ------------------------------------------------------------ removePlugins
\* Mutant of NextMatch: the test `if (!keys.contains(value.first))` is
\* missing, every entry matches.
NextMatchAny(l, from, ks) == IF from <= Len(l) THEN from ELSE 0

\* The first index from `from` on whose key is in ks; 0 when there is none
\* (the loop's `if (!keys.contains(value.first)) continue;`).
NextMatch(l, from, ks) ==
  LET m == {j \in from..Len(l) : l[j].key \in ks} IN
  IF m = {} THEN 0 ELSE CHOOSE j \in m : \A x \in m : j <= x

\* The calls of h in dispatch right now: the running one and the rest of the
\* batch.
InDispatch(h) ==
  (IF inflight[h] = NoEvent THEN {} ELSE {inflight[h]})
    \cup {queue[h][x] : x \in 1..batch[h]}

\* Loop head up to t->quit(): skip the entries whose key is not asked for,
\* then ask the thread of the first matching entry to quit; or leave the
\* loop.
removeScan ==
  /\ pc = "scan" /\ ~crashed
  /\ LET j == NextMatch(interfaceList, i, keys) IN
       IF j = 0
       THEN /\ pc' = "ret"
            /\ i' = Len(interfaceList) + 1
            /\ UNCHANGED <<exitReq, atQuit>>
       ELSE LET h == interfaceList[j].h IN
            /\ pc' = "wait"
            /\ i' = j
            /\ exitReq' = [exitReq EXCEPT ![h] = TRUE]
            /\ atQuit' = IF exitReq[h] \/ thr[h] # "running" THEN atQuit
                         ELSE [atQuit EXCEPT ![h] = InDispatch(h)]
  /\ UNCHANGED <<interfaceList, connected, released, thr, queue, batch,
                 inflight, done, stuck, nextH, emitted, notes, serverRunning,
                 crashed, op, keys, atCall, waitFailed, kept, preList,
                 lastOp, addedOnce, addedTwice, removedKeys>>
  /\ UNCHANGED bootVars
  /\ UNCHANGED loaderVars
  /\ UNCHANGED raceVars

\* Mutant of WaitDone: wait() answers true without waiting.
WaitDoneAtOnce(h) == TRUE

\* Mutant of WaitDone: the wait is over as soon as quit() was requested.
WaitDoneOnQuit(h) == exitReq[h]

\* t->wait() returns true once the thread is no longer running.
WaitDone(h) == thr[h] # "running"

\* Mutant of TornDown: the `continue` after a failed wait is missing.
TornDownAlways(waitOk) == TRUE

\* Lines 100-103 run when wait() returned true; otherwise `continue`.
TornDown(waitOk) == waitOk

\* t->wait() and what follows it.  wait() answers true when the thread has
\* finished and false when it gave up on a thread that still runs.  After
\* removeAt(i) the reference `value` (line 86) points into the node that
\* removeAt freed, so value.second is read from freed memory: either the
\* node is still intact and the read yields the handle, or the allocator has
\* overwritten it and the read yields a pointer that is no handle, on which
\* disconnect() matches no connection and deleteLater() may fault.
removeWait ==
  /\ pc = "wait" /\ ~crashed
  /\ LET e == interfaceList[i]
         h == e.h IN
     \E waitOk \in BOOLEAN :
       /\ waitOk <=> WaitDone(h)
       /\ waitFailed' = IF waitOk THEN waitFailed ELSE waitFailed \cup {h}
       /\ IF TornDown(waitOk)
          THEN /\ interfaceList' = RemoveAt(interfaceList, i)
               /\ i' = i
               /\ removedKeys' = removedKeys \cup {e.key}
               /\ \E intact \in BOOLEAN :
                    IF intact
                    THEN /\ connected' = connected \ {<<s, h>> : s \in Signals}
                         /\ released' = released \cup {h}
                         /\ UNCHANGED <<kept, crashed>>
                    ELSE /\ kept' = kept \cup {h}
                         /\ crashed' \in BOOLEAN
                         /\ UNCHANGED <<connected, released>>
          ELSE /\ i' = i + 1
               /\ UNCHANGED <<interfaceList, removedKeys, connected, released,
                              kept, crashed>>
  /\ pc' = "scan"
  /\ UNCHANGED <<nextH, emitted, notes, serverRunning, op, keys, atCall, atQuit,
                 preList, lastOp, addedOnce, addedTwice>>
  /\ UNCHANGED execVars
  /\ UNCHANGED bootVars
  /\ UNCHANGED loaderVars
  /\ UNCHANGED raceVars

\* ------------------------------------------- after removePlugins returned
\* pluginRemoved: DASFactory::loader()->removeLoader(loader)
removedReturn ==
  /\ pc = "ret" /\ op = "removed" /\ ~crashed
  /\ pc' = "end"
  /\ lastOp' = "removed"
  /\ UNCHANGED <<interfaceList, connected, released, nextH, emitted, notes,
                 serverRunning, crashed, op, keys, i, atCall, atQuit, waitFailed,
                 kept, preList, addedOnce, addedTwice, removedKeys>>
  /\ UNCHANGED execVars
  /\ unloaded' = TRUE
  /\ UNCHANGED subscribed
  /\ UNCHANGED bootVars
  /\ UNCHANGED raceVars

\* Mutant of ReloadKeys: the `if (loader)` test is missing.
ReloadKeysUnchecked(ok, ks) == ks

\* The keys addPlugin is called for after reloadLoader: those of the
\* reloaded loader, none when reloadLoader returned null (`if (loader)`).
ReloadKeys(ok, ks) == IF ok THEN ks ELSE <<>>

\* pluginModified: loader = reloadLoader(loader); if (loader) addPlugin for
\* every key of getKeysByLoader(loader)
modifiedReturn ==
  /\ pc = "ret" /\ op = "modified" /\ ~crashed
  /\ \E ok \in BOOLEAN : \E ks \in KeyLists : \E oks \in SUBSET Keys :
       LET eff == ReloadKeys(ok, ks) IN
       /\ CanCreate(eff, oks)
       /\ Added(addPlugins(Registry, eff, oks), eff, oks)
       /\ lastOp' = IF ok THEN "reloaded" ELSE "reloadFailed"
  /\ pc' = "end"
  /\ UNCHANGED <<released, exitReq, queue, batch, inflight, done, stuck,
                 emitted, notes, serverRunning, crashed, op, keys, i, atCall, atQuit,
                 waitFailed, kept, preList, removedKeys>>
  /\ UNCHANGED bootVars
  /\ UNCHANGED loaderVars
  /\ UNCHANGED raceVars

\* The handler returns to the caller's event loop, which then waits for the
\* next loader notification; the history of the handler is dropped.
handlerReturn ==
  /\ pc = "end" /\ ~crashed
  /\ pc' = "idle"
  /\ op' = "none" /\ keys' = {} /\ i' = 1
  /\ preList' = <<>> /\ waitFailed' = {} /\ kept' = {} /\ lastOp' = "none"
  /\ atCall' = 0
  /\ UNCHANGED <<interfaceList, connected, released, nextH, emitted, notes,
                 serverRunning, crashed, atQuit, addedOnce, addedTwice,
                 removedKeys>>
  /\ UNCHANGED execVars
  /\ UNCHANGED bootVars
  /\ UNCHANGED loaderVars
  /\ UNCHANGED raceVars

Next ==
  \/ init_connection
  \/ monitorRelay
  \/ monitorStart
  \/ handlerReturn
  \/ \E key \in Keys : pluginAdded(key)
  \/ \E ks \in SUBSET Keys : ks # {} /\ pluginRemoved(ks)
  \/ \E ks \in SUBSET Keys : ks # {} /\ pluginModified(ks)
  \/ removeScan
  \/ removeWait
  \/ removedReturn
  \/ modifiedReturn
  \/ \E sig \in Signals : Emit(sig)
  \/ \E h \in Handles : ExecStart(h)
  \/ \E h \in Handles : ExecFinish(h)
  \/ \E h \in Handles : ExecExit(h)

Spec == Init /\ [][Next]_vars

\* Every plugin thread is a thread of its own that the operating system keeps
\* scheduling: a step its event loop can take is eventually taken.  Nothing
\* is assumed of the server, of the loader or of a callback that blocks.
FairSpec ==
  /\ Spec
  /\ \A h \in Handles :
       WF_vars(ExecStart(h)) /\ WF_vars(ExecFinish(h)) /\ WF_vars(ExecExit(h))

\* The lifecycle thread too is a thread the operating system keeps
\* scheduling: a step removePlugins can take is eventually taken.
LiveSpec ==
  /\ FairSpec
  /\ WF_vars(removeScan) /\ WF_vars(removeWait)

\* The registry with two callers: a removed notification handled on the
\* lifecycle thread and a pluginAdded notification handled on another one,
\* while the server emits nothing.
RaceNext ==
  \/ init_connection
  \/ monitorRelay
  \/ monitorStart
  \/ handlerReturn
  \/ \E ks \in SUBSET Keys : ks # {} /\ pluginRemoved(ks)
  \/ removeScan
  \/ removeWait
  \/ removedReturn
  \/ \E h \in Handles : ExecExit(h)
  \/ \E key \in Keys : addCreate(key)
  \/ addRead
  \/ addWrite
  \/ addConnect

RaceSpec == Init /\ [][RaceNext]_vars

\* The start of the backend alone, on any machine: the calls of fireAnything
\* and what they run.
BootNext ==
  \/ init_connection
  \/ monitorRelay
  \/ monitorStart
  \/ handlerReturn

BootSpec == BootInit /\ [][BootNext]_vars

\* =================================================================== claims
\* h was registered and its entry has been removed from interfaceList.
Removed(h) == thr[h] # "none" /\ h \notin HandlesOf(interfaceList)
\* the handles removePlugins was called for by the handler in progress
Targets == {preList[j].h : j \in {x \in 1..Len(preList) : preList[x].key \in keys}}
InRemoval == op \in {"removed", "modified"}
Returned == InRemoval /\ pc \in {"ret", "end"}

\* C1: once the entry of a handle has been removed by removePlugins (so in
\* particular once removePlugins has returned), no callback of the handle is
\* in flight, and none starts in any later state: its thread has finished,
\* whatever the server emitted before, during or after the call.
C1_NoCallbackAfterRemoval ==
  \A h \in Handles : Removed(h) => inflight[h] = NoEvent /\ thr[h] = "finished"

\* C1 witness: removePlugins has returned for a handle that executed a call
\* and still holds a posted call that is never delivered.
C1_Witness ==
  \E h \in Handles :
    Removed(h) /\ Returned /\ h \in Targets /\ done[h] # <<>> /\ queue[h] # <<>>

\* C2 (as claimed): when removePlugins has returned having removed the entry
\* of h, every call posted to h before removePlugins was called has been
\* executed.
C2_DrainsAllPosted ==
  \A h \in Handles :
    (Returned /\ h \in Targets /\ Removed(h))
      => \A n \in Range(queue[h]) : n > atCall

\* C2 (amended): when the entry of h has been removed, every call that the
\* event loop of h had in dispatch when quit() was called (the running call
\* and the rest of its batch) has been executed; calls posted but not yet
\* taken into a batch are dropped, not executed.
C2_DrainsBatchInDispatch ==
  \A h \in Handles : Removed(h) => atQuit[h] \subseteq Range(done[h])

\* C2 witness: removePlugins has returned for a handle that had calls in
\* dispatch when quit() was called.
C2_Witness ==
  \E h \in Handles :
    Removed(h) /\ Returned /\ h \in Targets /\ atQuit[h] # {}

\* C3 (as claimed): from the moment removePlugins is called with the key of
\* a registered handle, no emit posts a call to that handle any more.
C3_NoForwardOnceInvoked ==
  [][\A h \in Handles :
       (InRemoval /\ pc \in {"scan", "wait", "ret", "end"} /\ h \in Targets)
         => Len(queue'[h]) <= Len(queue[h])]_vars

\* C4 (as claimed): interfaceList holds at most one entry per key.
C4_OneEntryPerKey ==
  \A a, b \in 1..Len(interfaceList) :
    a # b => interfaceList[a].key # interfaceList[b].key

\* C5: as long as no key has been added twice, the keys of interfaceList are
\* the keys added with a constructed handle minus the keys removed.
C5_LiveKeys ==
  addedTwice = {} => KeysOf(interfaceList) = addedOnce \ removedKeys

\* C5 witness: two keys were added and one of them was removed.
C5_Witness ==
  /\ addedTwice = {} /\ pc = "end"
  /\ Cardinality(addedOnce) = 2 /\ Cardinality(removedKeys) = 1
  /\ Len(interfaceList) = 1

\* C6: every handle executes its calls one after the other in the order the
\* signals were emitted: the calls executed so far, followed by the running
\* one, carry increasing emit numbers.
Executed(h) ==
  done[h] \o (IF inflight[h] = NoEvent THEN <<>> ELSE <<inflight[h]>>)
C6_PerObserverFifo ==
  \A h \in Handles :
    \A a, b \in 1..Len(Executed(h)) : a < b => Executed(h)[a] < Executed(h)[b]

\* C6 witness: one handle has executed two calls while another handle, which
\* was posted the same calls, has executed none of them.
C6_Witness ==
  \E h, g \in Handles :
    h # g /\ Len(done[h]) = 2 /\ done[g] = <<>> /\ Len(queue[g]) = 2

\* C7: the server can always emit, whatever the plugin threads are doing, and
\* a call posted to a handle is eventually executed by it unless that handle
\* itself is blocked in a callback or was asked to quit (or the process
\* died): a callback of another handle that never returns does not prevent
\* it.
C7_FanoutIsolation ==
  /\ []((serverRunning /\ ~crashed /\ emitted < MaxEvents)
          => ENABLED (\E sig \in Signals : Emit(sig)))
  /\ \A h \in Handles : \A n \in Events :
       (n \in Range(queue[h]))
         ~> (n \in Range(done[h]) \/ h \in stuck \/ exitReq[h] \/ crashed)

\* C7 witness: a handle is blocked for ever in the callback of the first
\* signal and another handle has executed the callback of the second one.
C7_Witness ==
  \E h, g \in Handles :
    h # g /\ h \in stuck /\ inflight[h] = 1 /\ 2 \in Range(done[g])

\* C8: a handle whose wait failed in the handler in progress is still in
\* interfaceList, still connected to the three signals and not scheduled for
\* release.
C8_WaitFailureKeepsEntry ==
  \A h \in waitFailed :
    /\ h \in HandlesOf(interfaceList)
    /\ \A sig \in Signals : <<sig, h>> \in connected
    /\ h \notin released

\* C8 witness: removePlugins has returned after the wait on a handle failed.
C8_Witness == waitFailed # {} /\ Returned

\* C9 (as claimed): after a modified notification whose reload succeeded (and
\* whose waits all succeeded), no handle that was registered under one of
\* the keys before the reload is still registered or still connected.
C9_NoPreReloadHandle ==
  (pc = "end" /\ lastOp = "reloaded" /\ waitFailed = {})
    => \A h \in Targets :
         /\ h \notin HandlesOf(interfaceList)
         /\ \A sig \in Signals : <<sig, h>> \notin connected

\* C10 (as claimed): after a modified notification whose reload failed, none
\* of the keys is registered and the rest of interfaceList is as it was.
C10_ReloadFailureUnregisters ==
  (pc = "end" /\ lastOp = "reloadFailed")
    => /\ KeysOf(interfaceList) \cap keys = {}
       /\ interfaceList = SelectSeq(preList, LAMBDA e : e.key \notin keys)

\* C10 (amended): after a modified notification whose reload failed,
\* interfaceList is what it was without the entries of the keys whose wait
\* succeeded: no entry was added, the entries of other keys are as they
\* were, and an entry of one of the keys remains only if its wait failed.
C10_ReloadFailureKeepsRest ==
  (pc = "end" /\ lastOp = "reloadFailed")
    => interfaceList =
         SelectSeq(preList, LAMBDA e : e.key \notin keys \/ e.h \in waitFailed)

\* C10 witness: the reload failed after an entry was removed and another
\* entry, of a key not named, was kept.
C10_Witness ==
  /\ pc = "end" /\ lastOp = "reloadFailed"
  /\ Len(interfaceList) = 1 /\ Len(preList) = 2 /\ waitFailed = {}

\* C11 (as claimed): when addPlugin for one key and removePlugins for other
\* keys run at the same time and both have completed (the handle was
\* constructed, every wait succeeded, every teardown went through the
\* handle), interfaceList holds the added entry and no entry of the removed
\* keys, and the entries of the other keys are as they were.
C11_DisjointCallsCompose ==
  (/\ pcA = "done" /\ aH # 0 /\ aKey \notin keys
   /\ pc = "end" /\ op = "removed" /\ waitFailed = {} /\ kept = {})
    => /\ aH \in HandlesOf(interfaceList)
       /\ KeysOf(interfaceList) \cap keys = {}
       /\ SelectSeq(interfaceList, LAMBDA e : e.h # aH)
            = SelectSeq(preList, LAMBDA e : e.key \notin keys /\ e.h # aH)

\* the handles registered under a key that removePlugins was not called for
Others == {interfaceList[j].h :
             j \in {x \in 1..Len(interfaceList) : interfaceList[x].key \notin keys}}

\* C12: no step taken while removePlugins(keys) is in its loop touches an
\* entry whose key is not in keys: these entries stay in interfaceList in
\* the same order, their threads are not asked to quit, their connections
\* stay and their handles are not released; and when no key of keys is
\* registered, the step changes nothing of the registry at all.
C12_RemovalFrame ==
  [][(InRemoval /\ pc \in {"scan", "wait"})
       => /\ SelectSeq(interfaceList', LAMBDA e : e.key \notin keys)
               = SelectSeq(interfaceList, LAMBDA e : e.key \notin keys)
          /\ \A h \in Others :
               /\ exitReq'[h] = exitReq[h]
               /\ \A sig \in Signals :
                    <<sig, h>> \in connected => <<sig, h>> \in connected'
               /\ h \in released' => h \in released
          /\ (KeysOf(interfaceList) \cap keys = {})
               => /\ interfaceList' = interfaceList
                  /\ connected' = connected
                  /\ released' = released
                  /\ exitReq' = exitReq]_vars

\* C12 witness: removePlugins has returned having removed one of two
\* entries; the other one, of a key not named, is registered, connected,
\* not asked to quit and not released.
C12_Witness ==
  /\ pc = "end" /\ op = "removed"
  /\ Len(preList) = 2 /\ Len(interfaceList) = 1
  /\ LET e == interfaceList[1] IN
       /\ e.key \notin keys
       /\ ~exitReq[e.h] /\ e.h \notin released
       /\ \A sig \in Signals : <<sig, e.h>> \in connected

\* C13: the step of a pluginAdded notification whose DASFactory::create
\* returned no interface leaves interfaceList as it was, creates and starts
\* no thread, constructs no handle and makes no connection.
C13_NoHandleNoEntry ==
  [][(pc = "idle" /\ lastOp' = "addFailed")
       => /\ interfaceList' = interfaceList
          /\ thr' = thr
          /\ nextH' = nextH
          /\ connected' = connected]_vars

\* C13 witness: addPlugin has returned without an interface while another
\* key is registered and a handle could still have been constructed.
C13_Witness ==
  /\ pc = "end" /\ lastOp = "addFailed"
  /\ Len(interfaceList) = 1 /\ interfaceList = preList
  /\ nextH <= MaxHandles

\* the release as the relay parses it: MAJOR.MINOR.*
Components == split(env.release)
Major == toInt(Components[1])
Minor == toInt(Components[2])
Relayed == mount.read /\ mount.writes > 0

\* C14: after a call of writeMountInfo on a machine whose uname succeeds and
\* whose release has three components, the mount table was read or a file
\* opened or written only if MAJOR > 5 or (MAJOR = 5 and MINOR >= 10); when
\* that holds and the table of N bytes can be read and the existing channel
\* takes the N bytes, the table was read, exactly N bytes were written in
\* one write and Success was returned; when it does not hold, nothing was
\* opened, read or written and Success was returned.
C14_RelayOnlyFrom510 ==
  (starts > 0 /\ env.unameOk /\ Len(Components) >= 3)
    => LET wanted == Major > 5 \/ (Major = 5 /\ Minor >= 10) IN
       /\ (mount.read \/ mount.writes > 0 \/ mount.opened # {}) => wanted
       /\ (wanted /\ env.srcOk /\ env.dstOk /\ env.accept = env.table)
            => /\ Relayed /\ mount.writes = 1
               /\ mount.written = env.table
               /\ mount.ret = Success
       /\ ~wanted
            => /\ ~mount.read /\ mount.writes = 0 /\ mount.written = 0
               /\ mount.opened = {}
               /\ mount.ret = Success

\* C14 witness: on kernel 5.10.3 a table of two bytes was relayed in full.
C14_Witness ==
  /\ starts > 0 /\ Major = 5 /\ Minor = 10
  /\ env.table = 2 /\ mount.written = 2 /\ mount.ret = Success /\ Relayed

\* the steps of the relay that can fail, in the order claimed, and whether
\* the step fails on this machine
ErrorOrder == <<UnameFail, UnrecognizedVersion, OpenSrcFileFail,
                OpenDstFileFail, WriteDstFileFail>>
StepFails(k) ==
  CASE k = 1 -> ~env.unameOk
    [] k = 2 -> Len(Components) < 3
    [] k = 3 -> ~env.srcOk
    [] k = 4 -> ~env.dstOk
    [] k = 5 -> env.accept # env.table

\* C15: after a call of writeMountInfo, the result is UnrecognizedVersion
\* exactly when uname succeeded and the release has fewer than three
\* components, and then nothing was opened, read or written; an error
\* result names a step that fails while no step before it in the order
\* UnameFail, UnrecognizedVersion, OpenSrcFileFail, OpenDstFileFail,
\* WriteDstFileFail fails; and a failure of one of the first two steps is
\* always reported.
C15_ErrorOrder ==
  starts > 0
    => /\ (mount.ret = UnrecognizedVersion)
            <=> (env.unameOk /\ Len(Components) < 3)
       /\ (mount.ret = UnrecognizedVersion)
            => ~mount.read /\ mount.opened = {} /\ mount.writes = 0
       /\ \A k \in 1..Len(ErrorOrder) :
            (mount.ret = ErrorOrder[k])
              => StepFails(k) /\ \A j \in 1..(k - 1) : ~StepFails(j)
       /\ (StepFails(1) \/ StepFails(2)) => mount.ret # Success

\* C15 witness: the release "abc" was reported as UnrecognizedVersion on a
\* machine where both files could have been opened.
C15_Witness ==
  /\ starts > 0 /\ mount.ret = UnrecognizedVersion
  /\ env.release = <<"a", "b", "c">> /\ env.srcOk /\ env.dstOk

\* C16: when monitorStart has run, whatever writeMountInfo returned, the
\* server is running, the loader notifications are subscribed to and
\* interfaceList holds an entry, with a running thread and the three
\* connections, for every key of the loader a handle was constructed for;
\* and the server never runs before writeMountInfo has returned.
C16_RelayFailureNonFatal ==
  /\ (pc = "end" /\ lastOp = "started")
       => /\ serverRunning /\ subscribed
          /\ KeysOf(interfaceList) = addedOnce
          /\ \A h \in 1..(nextH - 1) :
               /\ h \in HandlesOf(interfaceList)
               /\ thr[h] = "running"
               /\ \A sig \in Signals : <<sig, h>> \in connected
  /\ serverRunning => starts > 0

\* C16 witness: the write to the channel failed and monitorStart went on to
\* register two plugins and start the server.
C16_Witness ==
  /\ pc = "end" /\ lastOp = "started"
  /\ mount.ret = WriteDstFileFail
  /\ serverRunning /\ subscribed /\ Len(interfaceList) = 2

\* what monitorStart acts on
Started == <<interfaceList, connected, thr, nextH, serverRunning, subscribed,
             mount, starts, hasconnected>>

\* C20: monitorStart runs at most once; once a call of init_connection has
\* succeeded, hasconnected holds for good, every further call returns 0 and
\* changes nothing of what monitorStart acts on; a call that returns -1
\* leaves hasconnected false, and as long as no call has got past
\* backendRun, monitorStart has not run.
C20_StartsOnce ==
  /\ [](starts <= 1)
  /\ [](hasconnected => lastRet = 0 /\ starts = 1)
  /\ [](lastRet = -1 => ~hasconnected)
  /\ []((pc = "boot") => starts = 0 /\ ~serverRunning /\ ~subscribed
                          /\ interfaceList = <<>>)
  /\ [][(hasconnected /\ pc \in {"boot", "idle"})
          => Started' = Started /\ lastRet' = 0]_vars

\* C20 witness: a call of init_connection made after the start has returned
\* 0.
C20_Witness ==
  /\ pc = "end" /\ lastOp = "connected"
  /\ lastRet = 0 /\ starts = 1 /\ serverRunning

\* the step disconnects h from a signal, or hands h to deleteLater()
TearsDown(h) ==
  \/ h \in released' /\ h \notin released
  \/ \E sig \in Signals : <<sig, h>> \in connected /\ <<sig, h>> \notin connected'

\* C17 (as claimed): in the step that disconnects a handle or schedules it
\* for release, the thread of the handle has finished, no callback of it is
\* running and no posted call of it is waiting.
C17_DrainedAtTeardown ==
  [][\A h \in Handles :
       TearsDown(h)
         => thr[h] = "finished" /\ inflight[h] = NoEvent /\ queue[h] = <<>>]_vars

\* C17 (amended): in the step that disconnects a handle or schedules it for
\* release, the thread of the handle has finished and no callback of it is
\* running; calls that were posted and not dispatched may still be waiting,
\* and are never executed.
C17_TerminatedAtTeardown ==
  [][\A h \in Handles :
       TearsDown(h)
         => /\ thr[h] = "finished" /\ inflight[h] = NoEvent
            /\ thr'[h] = "finished" /\ done'[h] = done[h]]_vars

\* C17 witness: a handle was disconnected and scheduled for release while a
\* posted call of it, which it never executed, was waiting.
C17_Witness ==
  \E h \in released :
    /\ thr[h] = "finished" /\ queue[h] # <<>> /\ done[h] = <<>>
    /\ \A sig \in Signals : <<sig, h>> \notin connected

\* C18 (as claimed): the step that calls removeLoader is taken when
\* removePlugins has returned, and then no handle that was registered under
\* one of the keys is still in interfaceList and none of their threads is
\* still running.
C18_UnloadAfterRemoval ==
  [][(unloaded' /\ ~unloaded)
       => /\ pc = "ret" /\ op = "removed"
          /\ \A h \in Targets :
               h \notin HandlesOf(interfaceList) /\ thr[h] # "running"]_vars

\* C19 (as claimed): a call of removePlugins that has entered its loop
\* eventually leaves it, unless a callback never returns.
C19_RemoveReturns ==
  (InRemoval /\ pc = "scan") ~> (pc = "ret" \/ stuck # {})
====
